---- MODULE Spec2Model ----
(***************************************************************************)
(* Status-aware round-robin dispatching of the OSS-adapter repository:     *)
(*   cloud_llm/common_load_balancer.py    LoadBalancer.cycle and policies  *)
(*   llm_multi_cloud_full/balancer/load_balancer.py   RoundRobinBalancer   *)
(*   llm_multi_cloud_full/router.py       MultiCloudRouter.route           *)
(* Indices are 0-based as in the Python source; TLA+ sequences are 1-based, *)
(* so options[i] of the source is opts[i + 1] here.                        *)
(***************************************************************************)
EXTENDS Integers, Sequences, FiniteSets, TLC

VARIABLES
    strategy,       \* which LoadBalancer subclass LoadBalancer.create built
    max_iteration,  \* LoadBalancer._max_iteration
    pools,          \* the option lists callers pass to cycle (lists of entry ids)
    status,         \* LlmInstanceEntry.status, per entry
    type,           \* getattr(entry.instance, 'type', 0), per entry
    index,          \* LoadBalancer._index : defaultdict(int), key -> cursor
    last,           \* observer: the most recent sequential cycle call
    hist,           \* observer: results of the latest consecutive calls on one pool
    index_lock,     \* LoadBalancer._index_lock: 0 when free, else the holding caller
    pc,             \* per concurrent caller: its position inside cycle
    count,          \* per concurrent caller: the local variable count
    cand,           \* per concurrent caller: the local variable entry
    resetting,      \* per concurrent caller: in the reset block after the loop
    read,           \* per concurrent caller: the self._index[key] read in line 46
    examined,       \* observer, per concurrent caller: candidates obtained from _get
    outcome,        \* per concurrent caller: what the call returned or raised
    providers,      \* MultiCloudRouter.providers: per group, its instance count
    cloud_index,    \* MultiCloudRouter.cloud_balancer._index
    inner_index,    \* per group: MultiCloudRouter.inner_balancers[g]._index
    seen,           \* observer: the group and, per group, the instance selected last
    routed,         \* observer: the most recent route call
    clients,        \* BaseMultiComponentLLM: per capability, its client list
    balancers,      \* BaseMultiComponentLLM: per capability, its balancer's _index
    served,         \* observer: the most recent capability call
    select_lock,    \* RoundRobinBalancer._lock of the cloud balancer: 0 or its holder
    selecting       \* per concurrent caller of select: its position, idx and result

lbVars     == <<strategy, max_iteration, pools, status, type, index>>
seqVars    == <<last, hist>>
concVars   == <<index_lock, pc, count, cand, resetting, read, examined, outcome>>
routerVars == <<providers, cloud_index, inner_index, seen, routed>>
compVars   == <<clients, balancers, served>>
selVars    == <<select_lock, selecting>>
vars       == <<lbVars, seqVars, concVars, routerVars, compVars, selVars>>

----------------------------------------------------------------------------
(* Bounds of the model *)
MaxPool      == 3   \* longest option list
MaxType      == 2   \* largest priority (instance.type) value
MaxIteration == 4   \* largest max_iteration a dispatcher is built with
NCallers     == 2   \* concurrent callers of one dispatcher
MaxConcPool  == 2   \* longest option list under concurrent callers
MaxConcIteration == 1  \* largest max_iteration under concurrent callers
MaxGroups    == 2   \* most groups (clouds) of a router
MaxInstances == 2   \* most instances of one group
MaxClients   == 2   \* longest client list of a component router
NSelectors   == 3   \* concurrent callers of one RoundRobinBalancer.select

(* LlmStatus *)
INACTIVE == 0
ACTIVE   == 1

(* The exceptions the calls end with *)
IndexError     == "IndexError"
ZeroDivision   == "ZeroDivisionError"
AttributeError == "AttributeError"
LimitExceeded  == "Exceeded maximum iteration limit for load balancing."
NoActive       == "Could not find an active endpoint for balancing."
EmptyPool      == "EmptyPool"

RoundRobin  == "round-robin"
MasterSlave == "master-slave"

----------------------------------------------------------------------------
(* defaultdict(int): a read of a missing key yields 0 and inserts the key *)
IndexGet(idx, key) == IF key \in DOMAIN idx THEN idx[key] ELSE 0

IndexTouch(idx, key) ==
    [k \in DOMAIN idx \cup {key} |-> IF k \in DOMAIN idx THEN idx[k] ELSE 0]

IndexSet(idx, key, v) ==
    [k \in DOMAIN idx \cup {key} |-> IF k = key THEN v ELSE idx[k]]

NoIndex == [k \in {} |-> 0]

(* LoadBalancer._get_index_key: the identity of the entry object *)
GetIndexKey(entry) == entry

(* sorted(options, key=type): Python's sort is stable *)
Rank(opts, i) ==
    Cardinality({j \in 1..Len(opts) :
                    \/ type[opts[j]] < type[opts[i]]
                    \/ (type[opts[j]] = type[opts[i]] /\ j < i)}) + 1

SortedOptions(opts) ==
    [k \in 1..Len(opts) |-> opts[CHOOSE i \in 1..Len(opts) : Rank(opts, i) = k]]

(* a variant of Get: master-slave indexes the list as given, not the sorted one *)
GetUnsorted(opts, c) == opts[c + 1]

(* _get of the two subclasses, with c the value it reads from _index[key] *)
Get(opts, c) ==
    IF strategy = MasterSlave THEN SortedOptions(opts)[c + 1] ELSE opts[c + 1]

(* variants of the loop's pieces, each a plausible slip in that line *)
SelectableAny(e)      == TRUE
AdvanceSkip(c, opts)  == (c + 2) % Len(opts)
AdvanceNoWrap(c, opts) == c + 1
OverLimitLate(n)      == n > max_iteration + 1
OverLimitEarly(n)     == n >= max_iteration
LoopGuardShort(c, opts) == c < Len(opts) - 1

(* the pieces of cycle's loop *)
LoopGuard(c, opts)   == c < Len(opts)
OverLimit(n)         == n > max_iteration
Advance(c, opts)     == (c + 1) % Len(opts)
Selectable(e)        == status[e] # INACTIVE
ResetValue           == 0

(* LoadBalancer.cycle from its while loop on, for one caller with no        *)
(* interference: c is _index[key], n is count, x the candidates examined.  *)
RECURSIVE CycleLoop(_, _, _, _)
CycleLoop(opts, c, n, x) ==
    IF ~LoopGuard(c, opts)
    THEN [cursor |-> ResetValue, out |-> NoActive, entry |-> 0, examined |-> x]
    ELSE IF OverLimit(n + 1)
    THEN [cursor |-> c, out |-> LimitExceeded, entry |-> 0, examined |-> x]
    ELSE LET e == Get(opts, c) IN
         IF Selectable(e)
         THEN [cursor |-> Advance(c, opts), out |-> "entry", entry |-> e,
               examined |-> x + 1]
         ELSE CycleLoop(opts, Advance(c, opts), n + 1, x + 1)

(* the whole of LoadBalancer.cycle(options) *)
CycleCall(opts, idx) ==
    IF Len(opts) = 0
    THEN [index |-> idx, out |-> IndexError, entry |-> 0, examined |-> 0]
    ELSE LET key == GetIndexKey(opts[1])
             r   == CycleLoop(opts, IndexGet(idx, key), 0, 0)
         IN  [index |-> IndexSet(idx, key, r.cursor), out |-> r.out,
              entry |-> r.entry, examined |-> r.examined]

----------------------------------------------------------------------------
(* Observers *)
NoCall == [pool |-> 0, before |-> NoIndex, out |-> "none", entry |-> 0, examined |-> 0,
           prior |-> "none"]

Keep(s, n) == IF Len(s) <= n THEN s ELSE SubSeq(s, Len(s) - n + 1, Len(s))

Range(s) == {s[i] : i \in DOMAIN s}

Pool(n) == [i \in 1..n |-> i]

EntriesOf(ps) == UNION {Range(ps[p]) : p \in DOMAIN ps}

NoSeen == [group |-> 0, inst |-> <<>>]

NoRoute == [out |-> "none", group |-> 0, inst |-> 0, prevGroup |-> 0, prevInst |-> 0,
            groupStatus |-> ACTIVE, instStatus |-> ACTIVE, anyActiveGroup |-> TRUE,
            invoked |-> FALSE,
            outer |-> NoIndex, inner |-> <<>>]

(* the parts of the state a specification does not use *)
IdleConc ==
    /\ index_lock = 0
    /\ pc = <<>> /\ count = <<>> /\ cand = <<>> /\ resetting = <<>> /\ read = <<>>
    /\ examined = <<>> /\ outcome = <<>>

IdleRouter ==
    /\ providers = <<>>
    /\ cloud_index = NoIndex
    /\ inner_index = <<>>
    /\ seen = NoSeen
    /\ routed = NoRoute

IdleSeq == last = NoCall /\ hist = <<>>

NoService == [cap |-> "none", out |-> "none", raised |-> "none", entry |-> 0,
              selections |-> 0, invocations |-> 0]

IdleComp ==
    /\ clients = <<>>
    /\ balancers = <<>>
    /\ served = NoService

IdleSel ==
    /\ select_lock = 0
    /\ selecting = <<>>

----------------------------------------------------------------------------
(* Sequential callers of one dispatcher over one pool *)

InitBalancer(ps) ==
    /\ pools = ps
    /\ strategy \in {RoundRobin, MasterSlave}
    /\ max_iteration \in 1..MaxIteration
    /\ status \in [EntriesOf(ps) -> {INACTIVE, ACTIVE}]
    /\ type \in IF strategy = MasterSlave
                THEN [EntriesOf(ps) -> 0..MaxType]
                ELSE {[e \in EntriesOf(ps) |-> 0]}
    /\ index = NoIndex

Init ==
    /\ \E n \in 0..MaxPool : InitBalancer(<<Pool(n)>>)
    /\ IdleSeq /\ IdleConc /\ IdleRouter /\ IdleComp /\ IdleSel

(* a variant of OptionsAfter: master-slave sorts the caller's list in place *)
OptionsSortedInPlace(opts) ==
    IF strategy = MasterSlave THEN SortedOptions(opts) ELSE opts

(* the caller's list after a call: sorted(options) builds a new list *)
OptionsAfter(opts) == opts

(* the error of the latest call, if that call failed on a pool whose        *)
(* entries were all INACTIVE                                               *)
FailedOnAllInactive ==
    IF /\ last.pool # 0
       /\ last.out \notin {"entry", "none"}
       /\ Len(pools[last.pool]) > 0
       /\ \A i \in 1..Len(pools[last.pool]) : status[pools[last.pool][i]] = INACTIVE
    THEN last.out
    ELSE "none"

(* one whole call of cycle(pools[p]) *)
Cycle(p) ==
    LET r == CycleCall(pools[p], index) IN
    /\ index' = r.index
    /\ pools' = [pools EXCEPT ![p] = OptionsAfter(pools[p])]
    /\ last' = [pool |-> p, before |-> index, out |-> r.out, entry |-> r.entry,
                examined |-> r.examined,
                prior |-> IF last.pool = 0 THEN last.prior ELSE "none"]
    /\ hist' = IF last.pool = p
               THEN Keep(Append(hist, r.entry), Len(pools[p]))
               ELSE <<r.entry>>
    /\ UNCHANGED <<strategy, max_iteration, status, type>>
    /\ UNCHANGED <<concVars, routerVars, compVars, selVars>>

(* the external health collaborator marks an entry *)
SetStatus(e, s) ==
    /\ status[e] # s
    /\ status' = [status EXCEPT ![e] = s]
    /\ last' = [NoCall EXCEPT !.prior = IF last.pool # 0 THEN FailedOnAllInactive
                                        ELSE last.prior]
    /\ hist' = <<>>
    /\ UNCHANGED <<strategy, max_iteration, pools, type, index>>
    /\ UNCHANGED <<concVars, routerVars, compVars, selVars>>

Next ==
    \/ \E p \in DOMAIN pools : Cycle(p)
    \/ \E e \in DOMAIN status, s \in {INACTIVE, ACTIVE} : SetStatus(e, s)

Spec == Init /\ [][Next]_vars

(* One dispatcher called with two option lists: the second is a contiguous  *)
(* slice of the first, so it shares the first list's first entry or not.   *)
Slices(n) == {SubSeq(Pool(n), a, b) : a \in 1..n, b \in 1..n}

InitAlias ==
    /\ \E n \in 1..MaxPool : \E q \in Slices(n) : InitBalancer(<<Pool(n), q>>)
    /\ IdleSeq /\ IdleConc /\ IdleRouter /\ IdleComp /\ IdleSel

SpecAlias == InitAlias /\ [][Next]_vars

----------------------------------------------------------------------------
(* Properties of sequential cycle calls *)

LastOpts == pools[last.pool]

CursorOf(p) == IndexGet(index, GetIndexKey(pools[p][1]))

AllInactive(opts) == \A i \in 1..Len(opts) : status[opts[i]] = INACTIVE

(* C1: an entry returned by cycle has status ACTIVE (the status it had when *)
(* the dispatcher checked it), under both policies and any cursor.         *)
C1_ReturnsOnlyActive ==
    last.out = "entry" =>
        /\ last.entry \in Range(LastOpts)
        /\ status[last.entry] = ACTIVE

C1_Witness ==
    /\ last.out = "entry"
    /\ last.examined >= 2
    /\ strategy = MasterSlave
    /\ \E e \in Range(LastOpts) : status[e] = ACTIVE /\ e # last.entry

(* C2: under round-robin, len(pool) consecutive cycle calls on a pool whose *)
(* statuses stay fixed return every ACTIVE entry of the pool at least once. *)
C2_RoundRobinCoverage ==
    (/\ strategy = RoundRobin
     /\ last.pool # 0
     /\ Len(hist) = Len(LastOpts)) =>
        \A e \in Range(LastOpts) : status[e] = ACTIVE => e \in Range(hist)

C2_Witness ==
    /\ strategy = RoundRobin
    /\ last.pool # 0
    /\ Len(LastOpts) = MaxPool
    /\ Len(hist) = Len(LastOpts)
    /\ Cardinality({e \in Range(LastOpts) : status[e] = ACTIVE}) = 2
    /\ IndexGet(last.before, GetIndexKey(LastOpts[1])) # 0

(* C3: on a non-empty pool whose entries are all INACTIVE, cycle fails with *)
(* the "Could not find an active endpoint" error and leaves the cursor 0.   *)
C3_AllInactiveFailsNoActive ==
    (/\ last.pool # 0
     /\ Len(LastOpts) > 0
     /\ AllInactive(LastOpts)) =>
        /\ last.out = NoActive
        /\ CursorOf(last.pool) = 0

(* C4: cycle on an empty pool fails with a dedicated EmptyPool error and    *)
(* neither creates nor changes a cursor entry.                              *)
C4_EmptyPoolError ==
    (last.pool # 0 /\ Len(LastOpts) = 0) =>
        /\ last.out = EmptyPool
        /\ index = last.before

(* C5: every cursor a dispatcher holds is within 0..len(pool)-1 of each     *)
(* pool it is used with, after any sequence of calls on any pools.          *)
C5_CursorInRange ==
    \A p \in DOMAIN pools :
        Len(pools[p]) > 0 => CursorOf(p) \in 0..(Len(pools[p]) - 1)

----------------------------------------------------------------------------
(* Concurrent callers of cycle on one dispatcher and one pool.  A step is   *)
(* one access to the shared _index, _index_lock or an entry's status.       *)

Callers == 1..NCallers

Pending == [out |-> "pending", entry |-> 0]

InitCallers ==
    /\ index_lock = 0
    /\ pc = [t \in Callers |-> "start"]
    /\ count = [t \in Callers |-> 0]
    /\ cand = [t \in Callers |-> 0]
    /\ resetting = [t \in Callers |-> FALSE]
    /\ read = [t \in Callers |-> 0]
    /\ examined = [t \in Callers |-> 0]
    /\ outcome = [t \in Callers |-> Pending]

(* the pool of the concurrent callers: under master-slave its first entry   *)
(* is the secondary (type 1) and the others are primaries (type 0)         *)
InitConc ==
    /\ \E n \in 0..MaxConcPool :
        /\ pools = <<Pool(n)>>
        /\ status \in [1..n -> {INACTIVE, ACTIVE}]
        /\ strategy \in {RoundRobin, MasterSlave}
        /\ type = [e \in 1..n |-> IF strategy = MasterSlave /\ e = 1 THEN 1 ELSE 0]
    /\ max_iteration \in 1..MaxConcIteration
    /\ index = NoIndex
    /\ IdleSeq /\ InitCallers /\ IdleRouter /\ IdleComp /\ IdleSel

ConcOpts == pools[1]

ConcKey == GetIndexKey(ConcOpts[1])

Raise(t, err) ==
    /\ pc' = [pc EXCEPT ![t] = "done"]
    /\ outcome' = [outcome EXCEPT ![t] = [out |-> err, entry |-> 0]]

(* lines 37-39: entry = options[0]; key = ...; count = 0 *)
Start(t) ==
    /\ pc[t] = "start"
    /\ IF Len(ConcOpts) = 0
       THEN Raise(t, IndexError)
       ELSE pc' = [pc EXCEPT ![t] = "while"] /\ UNCHANGED outcome
    /\ UNCHANGED <<lbVars, seqVars, routerVars, compVars, selVars>>
    /\ UNCHANGED <<index_lock, count, cand, resetting, read, examined>>

(* lines 40-43: the loop test, then count += 1 and the ceiling *)
While(t) ==
    /\ pc[t] = "while"
    /\ index' = IndexTouch(index, ConcKey)
    /\ IF ~LoopGuard(IndexGet(index, ConcKey), ConcOpts)
       THEN /\ resetting' = [resetting EXCEPT ![t] = TRUE]
            /\ pc' = [pc EXCEPT ![t] = "lock"]
            /\ UNCHANGED <<count, outcome>>
       ELSE /\ count' = [count EXCEPT ![t] = @ + 1]
            /\ IF OverLimit(count[t] + 1)
               THEN Raise(t, LimitExceeded)
               ELSE pc' = [pc EXCEPT ![t] = "get"] /\ UNCHANGED outcome
            /\ UNCHANGED resetting
    /\ UNCHANGED <<strategy, max_iteration, pools, status, type>>
    /\ UNCHANGED <<seqVars, routerVars, compVars, selVars>>
    /\ UNCHANGED <<index_lock, cand, read, examined>>

(* line 44: entry = self._get(options, key=key) *)
GetStep(t) ==
    /\ pc[t] = "get"
    /\ IF IndexGet(index, ConcKey) >= Len(ConcOpts)
       THEN Raise(t, IndexError) /\ UNCHANGED <<cand, examined>>
       ELSE /\ cand' = [cand EXCEPT ![t] = Get(ConcOpts, IndexGet(index, ConcKey))]
            /\ examined' = [examined EXCEPT ![t] = @ + 1]
            /\ pc' = [pc EXCEPT ![t] = "lock"]
            /\ UNCHANGED outcome
    /\ UNCHANGED <<lbVars, seqVars, routerVars, compVars, selVars>>
    /\ UNCHANGED <<index_lock, count, resetting, read>>

(* a variant of Acquirable: the with block does not exclude other callers *)
AcquirableAlways(t) == TRUE

(* threading.Lock: it can be taken when no caller holds it *)
Acquirable(t) == index_lock = 0

(* lines 45 and 49: with self._index_lock, entering *)
Lock(t) ==
    /\ pc[t] = "lock"
    /\ Acquirable(t)
    /\ index_lock' = t
    /\ pc' = [pc EXCEPT ![t] = IF resetting[t] THEN "update" ELSE "read"]
    /\ UNCHANGED <<lbVars, seqVars, routerVars, compVars, selVars>>
    /\ UNCHANGED <<count, cand, resetting, read, examined, outcome>>

(* line 46, right-hand side: self._index[key] is read *)
Read(t) ==
    /\ pc[t] = "read"
    /\ read' = [read EXCEPT ![t] = IndexGet(index, ConcKey)]
    /\ pc' = [pc EXCEPT ![t] = "update"]
    /\ UNCHANGED <<lbVars, seqVars, routerVars, compVars, selVars>>
    /\ UNCHANGED <<index_lock, count, cand, resetting, examined, outcome>>

(* lines 46 and 50: the assignment to _index[key] and leaving the with     *)
(* block; line 51 raises after the reset                                   *)
Update(t) ==
    /\ pc[t] = "update"
    /\ index' = IndexSet(index, ConcKey,
                         IF resetting[t] THEN ResetValue
                         ELSE Advance(read[t], ConcOpts))
    /\ index_lock' = 0
    /\ read' = [read EXCEPT ![t] = 0]
    /\ IF resetting[t]
       THEN Raise(t, NoActive)
       ELSE pc' = [pc EXCEPT ![t] = "check"] /\ UNCHANGED outcome
    /\ UNCHANGED <<strategy, max_iteration, pools, status, type>>
    /\ UNCHANGED <<seqVars, routerVars, compVars, selVars>>
    /\ UNCHANGED <<count, cand, resetting, examined>>

(* lines 47-48: if entry.status != LlmStatus.INACTIVE: return entry *)
Check(t) ==
    /\ pc[t] = "check"
    /\ IF Selectable(cand[t])
       THEN /\ pc' = [pc EXCEPT ![t] = "done"]
            /\ outcome' = [outcome EXCEPT ![t] = [out |-> "entry", entry |-> cand[t]]]
       ELSE pc' = [pc EXCEPT ![t] = "while"] /\ UNCHANGED outcome
    /\ UNCHANGED <<lbVars, seqVars, routerVars, compVars, selVars>>
    /\ UNCHANGED <<index_lock, count, cand, resetting, read, examined>>

CallerStep(t) ==
    Start(t) \/ While(t) \/ GetStep(t) \/ Lock(t) \/ Read(t) \/ Update(t) \/ Check(t)

NextCallers ==
    \/ \E t \in Callers : Start(t)
    \/ \E t \in Callers : While(t)
    \/ \E t \in Callers : GetStep(t)
    \/ \E t \in Callers : Lock(t)
    \/ \E t \in Callers : Read(t)
    \/ \E t \in Callers : Update(t)
    \/ \E t \in Callers : Check(t)

NextConc ==
    \/ NextCallers
    \/ \E e \in DOMAIN status, s \in {INACTIVE, ACTIVE} : SetStatus(e, s)

(* every caller that can take a step eventually takes one *)
Fairness == \A t \in Callers : WF_vars(CallerStep(t))

SpecConc == InitConc /\ [][NextConc]_vars /\ Fairness

(* the same callers over a pool of M >= 1 entries that are and stay ACTIVE *)
InitAllActive ==
    /\ InitConc
    /\ Len(ConcOpts) >= 1
    /\ \A e \in DOMAIN status : status[e] = ACTIVE

SpecAllActive == InitAllActive /\ [][NextCallers]_vars /\ Fairness

AllDone == \A t \in Callers : pc[t] = "done"

(* C6: N concurrent callers on one all-ACTIVE pool of M >= 1 entries all    *)
(* return an entry, whatever the interleaving, and the cursor stays within *)
(* 0..M-1 throughout.                                                      *)
C6_ConcurrentCallersSucceed ==
    /\ [](IndexGet(index, ConcKey) \in 0..(Len(ConcOpts) - 1))
    /\ [](\A t \in Callers : outcome[t].out \in {"pending", "entry"})
    /\ <>(\A t \in Callers : outcome[t].out = "entry")

C6_Witness ==
    /\ Len(ConcOpts) >= 2
    /\ \A t \in Callers : outcome[t].out = "entry"
    /\ \E t, u \in Callers : t # u /\ outcome[t].entry = outcome[u].entry

(* how far a call has got: it grows with every step the call takes *)
Progress(t) ==
    6 * count[t] +
        CASE pc[t] = "start"  -> 0
          [] pc[t] = "while"  -> 5
          [] pc[t] = "get"    -> 0
          [] pc[t] = "lock"   -> IF resetting[t] THEN 6 ELSE 1
          [] pc[t] = "read"   -> 2
          [] pc[t] = "update" -> IF resetting[t] THEN 7 ELSE 3
          [] pc[t] = "check"  -> 4
          [] pc[t] = "done"   -> 8

(* C7: a cycle call examines at most max_iteration candidates and ends,     *)
(* whatever the statuses, the other callers and the status changes: once   *)
(* count exceeds max_iteration the call has failed with the limit error,   *)
(* every step of a call takes it further along a path bounded by           *)
(* max_iteration, and an unfinished call is never left without a step that *)
(* it, or the caller holding the lock, can take.                           *)
C7_BoundedSelection ==
    /\ [](\A t \in Callers :
            /\ examined[t] <= max_iteration
            /\ Progress(t) <= 6 * (max_iteration + 1) + 8
            /\ (count[t] > max_iteration =>
                    pc[t] = "done" /\ outcome[t].out = LimitExceeded)
            /\ (pc[t] # "done" =>
                    \/ ENABLED CallerStep(t)
                    \/ (index_lock \in Callers /\ ENABLED CallerStep(index_lock))))
    /\ [][\A t \in Callers : pc'[t] # pc[t] => Progress(t)' > Progress(t)]_vars

C7_Witness ==
    \E t \in Callers :
        /\ outcome[t].out = LimitExceeded
        /\ examined[t] = max_iteration
        /\ \E e \in Range(ConcOpts) : status[e] = ACTIVE

(* the cursor advances (line 46) a call has completed so far *)
Advances(t) ==
    examined[t] - (IF pc[t] \in {"lock", "read", "update"} /\ ~resetting[t]
                   THEN 1 ELSE 0)

RECURSIVE SumAdvances(_)
SumAdvances(n) == IF n = 0 THEN 0 ELSE Advances(n) + SumAdvances(n - 1)

TotalAdvances == SumAdvances(NCallers)

InLockedRegion(t) == pc[t] \in {"read", "update"}

(* C23: the read and the write of a cursor advance happen with the lock     *)
(* held by the advancing caller, and as long as no call resets the cursor, *)
(* after k completed advances the cursor, which starts at 0, is k mod L.   *)
C23_NoLostCursorUpdates ==
    /\ \A t \in Callers : InLockedRegion(t) => index_lock = t
    /\ (Len(ConcOpts) > 0 /\ \A t \in Callers : ~resetting[t]) =>
            IndexGet(index, ConcKey) = TotalAdvances % Len(ConcOpts)

C23_Witness ==
    /\ Len(ConcOpts) = 2
    /\ \E t, u \in Callers :
          /\ t # u
          /\ Advances(u) = 1
          /\ pc[t] = "update" /\ ~resetting[t] /\ index_lock = t
          /\ read[t] = 1
    /\ TotalAdvances = 1
    /\ IndexGet(index, ConcKey) = 1

Returned(t, e) == pc[t] = "done" /\ outcome[t] = [out |-> "entry", entry |-> e]

(* C24: two concurrent calls on an all-ACTIVE pool of two or more entries   *)
(* can return the same entry, and when they do each of them has still      *)
(* advanced the cursor once: the cursor has moved past an entry that no    *)
(* call returned.                                                          *)
C24_SameEntryStillAdvances ==
    \A t, u \in Callers : \A e \in Range(ConcOpts) :
        (t # u /\ Returned(t, e) /\ Returned(u, e)) =>
            /\ Advances(t) = 1 /\ Advances(u) = 1
            /\ IndexGet(index, ConcKey) = TotalAdvances % Len(ConcOpts)

C24_Witness ==
    /\ Len(ConcOpts) >= 2
    /\ AllDone
    /\ \E t, u \in Callers : t # u /\ Returned(t, ConcOpts[1]) /\ Returned(u, ConcOpts[1])
    /\ IndexGet(index, ConcKey) = NCallers % Len(ConcOpts)
    /\ \A t \in Callers : ~Returned(t, ConcOpts[2])

----------------------------------------------------------------------------
(* Callers that give up a cycle call part-way: an exception raised in the   *)
(* caller at any statement; a with block releases the lock on the way out. *)

Abandoned == [out |-> "abandoned", entry |-> 0]

(* a variant of LockAfterAbandon: the lock stays with the caller that left *)
LockAfterAbandonHeld(t) == index_lock

(* with self._index_lock: __exit__ releases the lock if this caller has it *)
LockAfterAbandon(t) == IF index_lock = t THEN 0 ELSE index_lock

Abandon(t) ==
    /\ pc[t] # "done"
    /\ pc' = [pc EXCEPT ![t] = "done"]
    /\ outcome' = [outcome EXCEPT ![t] = Abandoned]
    /\ index_lock' = LockAfterAbandon(t)
    /\ UNCHANGED <<lbVars, seqVars, routerVars, compVars, selVars>>
    /\ UNCHANGED <<count, cand, resetting, read, examined>>

NextAbandon ==
    \/ NextCallers
    \/ \E t \in Callers : Abandon(t)

SpecAbandon == InitConc /\ [][NextAbandon]_vars /\ Fairness

(* C26: when callers give up at any point of a call, the lock is held only  *)
(* by a caller that is inside the with block, the cursor stays within      *)
(* 0..len-1, and every other call still ends as it does on a dispatcher    *)
(* nobody gave up on: it is never left without a step, it examines at most *)
(* max_iteration candidates, and it returns an ACTIVE entry or fails with  *)
(* the limit error (or IndexError on the empty pool).                      *)
C26_AbandonmentSafe ==
    /\ [](/\ index_lock # 0 => InLockedRegion(index_lock)
          /\ \A t \in Callers : InLockedRegion(t) => index_lock = t
          /\ Len(ConcOpts) > 0 =>
                IndexGet(index, ConcKey) \in 0..(Len(ConcOpts) - 1)
          /\ \A t \in Callers :
                /\ examined[t] <= max_iteration
                /\ Progress(t) <= 6 * (max_iteration + 1) + 8
                /\ (pc[t] # "done" =>
                        \/ ENABLED CallerStep(t)
                        \/ (index_lock \in Callers /\ ENABLED CallerStep(index_lock)))
                /\ (pc[t] = "done" /\ outcome[t] # Abandoned =>
                        \/ outcome[t].out = "entry" /\ status[outcome[t].entry] = ACTIVE
                        \/ outcome[t].out = LimitExceeded
                        \/ outcome[t].out = IndexError /\ Len(ConcOpts) = 0))
    /\ [][\A t \in Callers : pc'[t] # pc[t] => Progress(t)' > Progress(t)]_vars

(* a caller gave up between the read and the write of line 46, after it     *)
(* had read cursor 1, and the other call has returned an entry            *)
C26_Witness ==
    \E t, u \in Callers :
        /\ t # u
        /\ outcome[t] = Abandoned /\ read[t] = 1
        /\ pc[u] = "done" /\ outcome[u].out = "entry"
        /\ index_lock = 0
        /\ IndexGet(index, ConcKey) = 1

----------------------------------------------------------------------------
(* MultiCloudRouter: groups are numbered in the order of providers' keys,   *)
(* instance i of group g is <<g, i>>.                                      *)

CloudKey    == "cloud"
ProviderKey == "provider"
Methods     == {"create_embedding", "create_completion", "unknown_method"}
Known       == {"create_embedding", "create_completion"}
BackendCallFailed == "BackendCallFailed"

(* a variant of SelectNext: the cursor is not advanced *)
SelectNextStuck(i, opts) == i % Len(opts)

(* RoundRobinBalancer.select, line 12: the cursor after reading i *)
SelectNext(i, opts) == (i + 1) % Len(opts)

(* a variant of SelectPick: the entry at the advanced cursor is returned *)
SelectPickAdvanced(i, opts) == opts[SelectNext(i, opts) + 1]

(* RoundRobinBalancer.select, line 13: return options[idx] *)
SelectPick(i, opts) == opts[i + 1]

(* RoundRobinBalancer.select(key, options) on a balancer whose _index is idx *)
Select(idx, key, opts) ==
    LET i == IndexGet(idx, key) IN
    IF Len(opts) = 0
    THEN [index |-> IndexTouch(idx, key), out |-> ZeroDivision, value |-> 0]
    ELSE IF i >= Len(opts)
    THEN [index |-> IndexSet(idx, key, SelectNext(i, opts)), out |-> IndexError,
          value |-> 0]
    ELSE [index |-> IndexSet(idx, key, SelectNext(i, opts)), out |-> "ok",
          value |-> SelectPick(i, opts)]

(* a variant of CloudNames: the last group is left out *)
CloudNamesShort == [g \in 1..(Len(providers) - 1) |-> g]

(* list(self.providers.keys()) and self.providers[cloud_name] *)
CloudNames == [g \in 1..Len(providers) |-> g]

InstancesOf(g) == [i \in 1..providers[g] |-> <<g, i>>]

(* a variant of InnerBalancer: one inner balancer shared by all groups *)
InnerBalancerShared(g) == 1

(* self.inner_balancers[cloud_name]: the balancer built for that group *)
InnerBalancer(g) == g

InitRouter ==
    /\ \E n \in 0..MaxGroups : providers \in [1..n -> 0..MaxInstances]
    /\ cloud_index = NoIndex
    /\ inner_index = [g \in 1..Len(providers) |-> NoIndex]
    /\ seen = [group |-> 0, inst |-> [g \in 1..Len(providers) |-> 0]]
    /\ routed = NoRoute
    /\ pools = <<>> /\ strategy = RoundRobin /\ max_iteration = 1
    /\ status = <<>> /\ type = <<>> /\ index = NoIndex
    /\ IdleSeq /\ IdleConc /\ IdleComp /\ IdleSel

(* a variant of CursorKept: a failed lookup or backend call restores the    *)
(* cursor the call started with                                            *)
CursorRolledBack(before, after, res) ==
    IF res \in {AttributeError, BackendCallFailed} THEN before ELSE after

(* lines 14-17: nothing undoes a select once getattr or the call has raised *)
CursorKept(before, after, res) == after

(* one whole call of route(method, **kwargs).  ok: whether the backend call *)
(* succeeds; gm, is: the availability an external monitor has put on each  *)
(* group and on the selected instance at the time of the call, which route *)
(* does not read.                                                          *)
Route(method, ok, gm, is) ==
    LET outer == Select(cloud_index, CloudKey, CloudNames)
        g     == outer.value
        gs    == gm[g]
        b     == InnerBalancer(g)
        inner == Select(inner_index[b], ProviderKey, InstancesOf(g))
        res   == IF outer.out # "ok" THEN outer.out
                 ELSE IF inner.out # "ok" THEN inner.out
                 ELSE IF method \notin Known THEN AttributeError
                 ELSE IF ok THEN "ok" ELSE BackendCallFailed
        base  == [NoRoute EXCEPT !.outer = cloud_index, !.inner = inner_index,
                                 !.prevGroup = seen.group,
                                 !.anyActiveGroup =
                                     (\E h \in DOMAIN gm : gm[h] = ACTIVE)]
    IN
    /\ cloud_index' = CursorKept(cloud_index, outer.index, res)
    /\ IF outer.out # "ok"
       THEN /\ routed' = [base EXCEPT !.out = outer.out]
            /\ UNCHANGED <<inner_index, seen>>
       ELSE /\ inner_index' = [inner_index EXCEPT
                                  ![b] = CursorKept(inner_index[b], inner.index, res)]
            /\ IF inner.out # "ok"
               THEN /\ routed' = [base EXCEPT !.out = inner.out, !.group = g,
                                              !.groupStatus = gs,
                                              !.prevInst = seen.inst[g]]
                    /\ seen' = [seen EXCEPT !.group = g]
               ELSE /\ routed' = [base EXCEPT
                            !.out = res,
                            !.group = g, !.inst = inner.value[2],
                            !.groupStatus = gs, !.instStatus = is,
                            !.prevInst = seen.inst[g],
                            !.invoked = (method \in Known)]
                    /\ seen' = [group |-> g,
                                inst |-> [seen.inst EXCEPT ![g] = inner.value[2]]]
    /\ UNCHANGED providers
    /\ UNCHANGED <<lbVars, seqVars, concVars, compVars, selVars>>

NextRouter ==
    \E method \in Methods, ok \in BOOLEAN,
       gm \in [1..Len(providers) -> {INACTIVE, ACTIVE}],
       is \in {INACTIVE, ACTIVE} : Route(method, ok, gm, is)

SpecRouter == InitRouter /\ [][NextRouter]_vars

----------------------------------------------------------------------------
(* Properties of route *)

Groups == 1..Len(providers)

(* C8: successive route calls select the groups cyclically in the order of  *)
(* providers, and the calls landing on one group select its instances      *)
(* cyclically in pool order, whatever happened on other groups in between. *)
C8_HierarchicalRoundRobin ==
    routed.group # 0 =>
        /\ routed.group = (routed.prevGroup % Len(providers)) + 1
        /\ (providers[routed.group] > 0 =>
                routed.inst = (routed.prevInst % providers[routed.group]) + 1)

C8_Witness ==
    /\ Len(providers) = 2
    /\ providers[1] = 2
    /\ routed.group = 1 /\ routed.inst = 2
    /\ routed.prevGroup = 2 /\ routed.prevInst = 1

(* C9: a route call that selects group G leaves the inner cursor of every   *)
(* other group unchanged, also when G's instance selection or the backend  *)
(* call fails.                                                             *)
C9_OtherInnerCursorsUnchanged ==
    routed.out # "none" =>
        \A h \in Groups : h # routed.group => inner_index[h] = routed.inner[h]

C9_Witness ==
    /\ routed.out \in {ZeroDivision, BackendCallFailed}
    /\ \E h \in Groups :
        /\ h # routed.group
        /\ IndexGet(inner_index[h], ProviderKey) = 1

SelectionsSucceeded == routed.group # 0 /\ routed.inst # 0

LookupOrCallFailed == routed.out \in {AttributeError, BackendCallFailed}

(* C27: a route call whose two selections succeed leaves the outer cursor   *)
(* and the selected group's inner cursor each one further (mod length)     *)
(* than it found them, also when the method lookup or the backend call     *)
(* fails; the route call after a failed one selects the next group in the  *)
(* cyclic order, not the group of the failed call again.                   *)
C27_NoRollback ==
    /\ [](SelectionsSucceeded =>
            /\ IndexGet(cloud_index, CloudKey)
                  = (IndexGet(routed.outer, CloudKey) + 1) % Len(providers)
            /\ IndexGet(inner_index[routed.group], ProviderKey)
                  = (IndexGet(routed.inner[routed.group], ProviderKey) + 1)
                        % providers[routed.group])
    /\ [][(SelectionsSucceeded /\ LookupOrCallFailed) =>
            /\ routed'.group = (routed.group % Len(providers)) + 1
            /\ (Len(providers) >= 2 => routed'.group # routed.group)]_vars

C27_Witness ==
    /\ Len(providers) = 2
    /\ providers[2] = 2
    /\ routed.out = BackendCallFailed
    /\ routed.group = 2 /\ routed.inst = 1
    /\ routed.prevGroup = 1
    /\ IndexGet(routed.outer, CloudKey) = 1
    /\ IndexGet(cloud_index, CloudKey) = 0
    /\ IndexGet(inner_index[2], ProviderKey) = 1

----------------------------------------------------------------------------
(* Properties of the priority-ordered (master-slave) policy *)

PosIn(opts, e) == CHOOSE i \in 1..Len(opts) : opts[i] = e

(* a comes before b: lower priority number, ties in pool order *)
Before(opts, a, b) ==
    \/ type[a] < type[b]
    \/ (type[a] = type[b] /\ PosIn(opts, a) < PosIn(opts, b))

IsFirst(opts, a) == \A x \in Range(opts) : ~Before(opts, x, a)

IsLast(opts, a) == \A x \in Range(opts) : ~Before(opts, a, x)

(* b is visited right after a: the next in priority order, cyclically *)
Follows(opts, a, b) ==
    \/ /\ Before(opts, a, b)
       /\ ~\E x \in Range(opts) : Before(opts, a, x) /\ Before(opts, x, b)
    \/ (IsLast(opts, a) /\ IsFirst(opts, b))

AllActive(opts) == \A i \in 1..Len(opts) : status[opts[i]] = ACTIVE

CursorBefore == IndexGet(last.before, GetIndexKey(LastOpts[1]))

(* C12: while all entries are ACTIVE, successive master-slave calls return  *)
(* the entries in ascending priority, ties in pool order, cyclically; a    *)
(* call that starts at cursor 0 returns the first entry of that order.     *)
C12_PriorityVisitingOrder ==
    (/\ strategy = MasterSlave
     /\ last.pool # 0
     /\ Len(LastOpts) > 0
     /\ AllActive(LastOpts)) =>
        /\ last.out = "entry"
        /\ (CursorBefore = 0 => IsFirst(LastOpts, last.entry))
        /\ \A i \in 1..(Len(hist) - 1) : Follows(LastOpts, hist[i], hist[i + 1])

C12_Witness ==
    /\ strategy = MasterSlave
    /\ last.pool # 0
    /\ LastOpts = Pool(3)
    /\ AllActive(LastOpts)
    /\ type[1] = 2 /\ type[2] = 0 /\ type[3] = 1
    /\ hist = <<2, 3, 1>>

(* C13: every master-slave call returns an entry of a higher priority      *)
(* number only if every entry of a lower one is INACTIVE.                  *)
C13_PrimaryAlwaysPreferred ==
    (strategy = MasterSlave /\ last.out = "entry") =>
        \A e \in Range(LastOpts) :
            type[e] < type[last.entry] => status[e] = INACTIVE

(* C14 as claimed: on a pool of two or more entries, two consecutive        *)
(* successful calls never return the same entry.                           *)
C14_NoRepeatUnlessSingleton ==
    (last.pool # 0 /\ Len(LastOpts) >= 2) =>
        \A i \in 1..(Len(hist) - 1) :
            (hist[i] # 0 /\ hist[i + 1] # 0) => hist[i] # hist[i + 1]

(* C14, amended: on a pool with two or more ACTIVE entries, two consecutive *)
(* successful calls never return the same entry; with a single ACTIVE      *)
(* entry every successful call returns that entry.                         *)
C14_NoRepeatWithTwoActive ==
    last.pool # 0 =>
        LET active == {e \in Range(LastOpts) : status[e] = ACTIVE} IN
        /\ (Cardinality(active) >= 2 =>
                \A i \in 1..(Len(hist) - 1) :
                    (hist[i] # 0 /\ hist[i + 1] # 0) => hist[i] # hist[i + 1])
        /\ (Cardinality(active) = 1 =>
                \A i \in 1..Len(hist) : hist[i] # 0 => hist[i] \in active)

C14_Witness ==
    /\ last.pool # 0
    /\ Len(LastOpts) = 3
    /\ Cardinality({e \in Range(LastOpts) : status[e] = ACTIVE}) = 2
    /\ Len(hist) = 3
    /\ \A i \in 1..3 : hist[i] # 0
    /\ hist[1] = hist[3]

----------------------------------------------------------------------------
(* C17: a cycle call, under either policy and whether it returns or fails,  *)
(* changes no entry's status or priority and leaves the caller's pool as   *)
(* it was, in order and membership; only the cursors change.               *)
C17_OnlyCursorsChange ==
    [][last'.pool # 0 =>
          (status' = status /\ type' = type /\ pools' = pools /\
           strategy' = strategy /\ max_iteration' = max_iteration)]_vars

C17_Witness ==
    /\ strategy = MasterSlave
    /\ last.pool # 0
    /\ Len(LastOpts) = 3
    /\ type[LastOpts[1]] > type[LastOpts[2]]
    /\ last.out = LimitExceeded
    /\ index # last.before

(* C19: after a call has failed on a pool whose entries were all INACTIVE   *)
(* and an entry has then been marked ACTIVE, the next call on the pool,    *)
(* with max_iteration >= len(pool), returns an ACTIVE entry.               *)
C19_RecoversAfterFailure ==
    (/\ last.pool # 0
     /\ last.prior # "none"
     /\ \E e \in Range(LastOpts) : status[e] = ACTIVE
     /\ max_iteration >= Len(LastOpts)) =>
        /\ last.out = "entry"
        /\ status[last.entry] = ACTIVE

C19_Witness ==
    /\ last.pool # 0
    /\ last.prior = LimitExceeded
    /\ Len(LastOpts) = 3
    /\ max_iteration = 3
    /\ last.out = "entry"
    /\ last.examined = 3

(* the list _get indexes: the pool as given, or its stable sort by type *)
ViewOf(opts) == IF strategy = MasterSlave THEN SortedOptions(opts) ELSE opts

(* the first position among c, c+1, ... (mod len) whose entry is ACTIVE *)
FirstActiveFrom(view, c) ==
    LET L == Len(view)
        d == CHOOSE d \in 0..(L - 1) :
                /\ status[view[((c + d) % L) + 1]] = ACTIVE
                /\ \A b \in 0..(d - 1) : status[view[((c + b) % L) + 1]] # ACTIVE
    IN  (c + d) % L

(* C21: on a non-empty pool with an ACTIVE entry and max_iteration >= len,  *)
(* a call that starts at cursor c returns the entry at position i of the   *)
(* policy's view, i being the first position among c, c+1, ... (mod len)   *)
(* whose entry is ACTIVE, and leaves the cursor at (i + 1) mod len.        *)
C21_SelectMatchesReference ==
    (/\ last.pool # 0
     /\ Len(LastOpts) > 0
     /\ ~AllInactive(LastOpts)
     /\ max_iteration >= Len(LastOpts)) =>
        LET i == FirstActiveFrom(ViewOf(LastOpts), CursorBefore) IN
        /\ last.out = "entry"
        /\ last.entry = ViewOf(LastOpts)[i + 1]
        /\ CursorOf(last.pool) = (i + 1) % Len(LastOpts)

C21_Witness ==
    /\ last.pool # 0
    /\ strategy = MasterSlave
    /\ Len(LastOpts) = 3
    /\ ViewOf(LastOpts) # LastOpts
    /\ max_iteration >= 3
    /\ CursorBefore = 2
    /\ last.out = "entry"
    /\ last.examined = 2
    /\ last.entry = ViewOf(LastOpts)[1]
    /\ CursorOf(last.pool) = 1

(* C22: a single call examines each entry of the pool at most once, so at   *)
(* most len(pool) candidates, whatever the statuses.                       *)
C22_SweepBound ==
    last.pool # 0 => last.examined <= Len(LastOpts)

----------------------------------------------------------------------------
(* Properties of one dispatcher used with two pools *)

KeyOf(p) == GetIndexKey(pools[p][1])

(* C18: a call on pool P neither reads nor changes the cursor used for a    *)
(* different pool Q, also when P and Q share their first entry or differ   *)
(* in length.                                                              *)
C18_DistinctPoolsDistinctCursors ==
    last.pool # 0 =>
        \A q \in DOMAIN pools :
            (/\ q # last.pool
             /\ pools[q] # pools[last.pool]
             /\ Len(pools[q]) > 0 /\ Len(pools[last.pool]) > 0) =>
                /\ KeyOf(q) # KeyOf(last.pool)
                /\ IndexGet(index, KeyOf(q)) = IndexGet(last.before, KeyOf(q))

(* C20: whenever cycle fails with "Could not find an active endpoint",      *)
(* every entry of the pool passed to the call is INACTIVE.                 *)
C20_NoActiveOnlyWhenAllInactive ==
    (last.pool # 0 /\ last.out = NoActive) => AllInactive(LastOpts)

----------------------------------------------------------------------------
(* BaseMultiComponentLLM: three client lists, each with its own balancer.   *)
(* The lists are built by _init_clients and may hold the same entries.     *)

Caps == {"llm", "analyser", "content_safety"}

(* a variant of BalancerOf: one balancer serves all three capabilities *)
BalancerShared(cap) == "llm"

(* self.llm_balancer, self.analyser_balancer, self.safety_balancer *)
BalancerOf(cap) == cap

(* a variant of CallOnce: a failed backend call is retried on the next entry *)
CallWithFailover(opts, idx, ok) ==
    LET r == CycleCall(opts, idx)
        q == CycleCall(opts, r.index)
    IN  IF r.out # "entry"
        THEN [index |-> r.index, out |-> r.out, raised |-> r.out, entry |-> 0,
              selections |-> 1, invocations |-> 0]
        ELSE IF ok
        THEN [index |-> r.index, out |-> "ok", raised |-> "none", entry |-> r.entry,
              selections |-> 1, invocations |-> 1]
        ELSE IF q.out # "entry"
        THEN [index |-> q.index, out |-> q.out, raised |-> q.out, entry |-> r.entry,
              selections |-> 2, invocations |-> 1]
        ELSE [index |-> q.index, out |-> "ok", raised |-> BackendCallFailed,
              entry |-> q.entry, selections |-> 2, invocations |-> 2]

(* entry = balancer.cycle(clients); return await self._call_x(entry, ...)   *)
(* ok: whether the backend call succeeds; raised: the error the selection  *)
(* or the backend raised, out: what the caller receives.                   *)
CallOnce(opts, idx, ok) ==
    LET r == CycleCall(opts, idx)
    IN  IF r.out # "entry"
        THEN [index |-> r.index, out |-> r.out, raised |-> r.out, entry |-> 0,
              selections |-> 1, invocations |-> 0]
        ELSE [index |-> r.index, out |-> IF ok THEN "ok" ELSE BackendCallFailed,
              raised |-> IF ok THEN "none" ELSE BackendCallFailed,
              entry |-> r.entry, selections |-> 1, invocations |-> 1]

(* the client lists: the llm list holds every entry, the two others are     *)
(* contiguous parts of it (possibly empty, as for a provider without them) *)
InitComponent ==
    /\ \E n \in 1..MaxClients :
        /\ \E a \in Slices(n), s \in Slices(n) \cup {<<>>} :
              clients = [c \in Caps |-> IF c = "llm" THEN Pool(n)
                                        ELSE IF c = "analyser" THEN a ELSE s]
        /\ status \in [1..n -> {INACTIVE, ACTIVE}]
        /\ type = [e \in 1..n |-> 0]
    /\ balancers = [c \in Caps |-> NoIndex]
    /\ served = NoService
    /\ strategy = RoundRobin
    /\ max_iteration = MaxIteration
    /\ pools = <<>> /\ index = NoIndex
    /\ IdleSeq /\ IdleConc /\ IdleRouter /\ IdleSel

(* the three capability methods share this body *)
Capability(cap, ok) ==
    LET b == BalancerOf(cap)
        r == CallOnce(clients[cap], balancers[b], ok)
    IN  /\ balancers' = [balancers EXCEPT ![b] = r.index]
        /\ served' = [cap |-> cap, out |-> r.out, raised |-> r.raised,
                      entry |-> r.entry, selections |-> r.selections,
                      invocations |-> r.invocations]
        /\ UNCHANGED clients
        /\ UNCHANGED <<lbVars, seqVars, concVars, routerVars, selVars>>

answer_question(ok)      == Capability("llm", ok)
content_safety_check(ok) == Capability("content_safety", ok)
extract_document(ok)     == Capability("analyser", ok)

NextComponent ==
    \/ \E ok \in BOOLEAN : answer_question(ok)
    \/ \E ok \in BOOLEAN : content_safety_check(ok)
    \/ \E ok \in BOOLEAN : extract_document(ok)
    \/ \E e \in DOMAIN status, s \in {INACTIVE, ACTIVE} : SetStatus(e, s)

SpecComponent == InitComponent /\ [][NextComponent]_vars

----------------------------------------------------------------------------
(* Properties of the capability calls *)

SelectionErrors == {IndexError, LimitExceeded, NoActive}

ServedOpts == clients[served.cap]

ServedCursor == IndexGet(balancers[served.cap], GetIndexKey(ServedOpts[1]))

(* C15: a call to one capability changes only that capability's cursor; the *)
(* cursors of the two other capabilities stay as they were, also when the  *)
(* three client lists share entries.                                       *)
C15_CapabilityCursorsIndependent ==
    [][\A c \in Caps : c # served'.cap => balancers'[c] = balancers[c]]_vars

C15_Witness ==
    /\ served.cap = "content_safety"
    /\ Len(clients["content_safety"]) > 0
    /\ clients["content_safety"][1] = clients["llm"][1]
    /\ clients["analyser"] = clients["llm"]
    /\ IndexGet(balancers["content_safety"], GetIndexKey(clients["llm"][1])) = 1
    /\ IndexGet(balancers["llm"], GetIndexKey(clients["llm"][1])) = 0
    /\ balancers["analyser"] = NoIndex

(* C16: a capability call selects exactly once and invokes the backend at   *)
(* most once; a selection error reaches the caller with no backend call    *)
(* made; a backend error reaches the caller as raised, and the cursor is   *)
(* left just past the entry that failed: no other entry was selected.      *)
C16_NoCallLevelFailover ==
    served.cap # "none" =>
        /\ served.selections = 1
        /\ served.invocations <= 1
        /\ served.raised # "none" => served.out = served.raised
        /\ served.out \in SelectionErrors =>
              served.invocations = 0 /\ served.entry = 0
        /\ served.out = BackendCallFailed =>
              /\ served.invocations = 1
              /\ ServedCursor = PosIn(ServedOpts, served.entry) % Len(ServedOpts)

C16_Witness ==
    /\ served.out = BackendCallFailed
    /\ Len(ServedOpts) >= 2
    /\ \A i \in 1..Len(ServedOpts) : status[ServedOpts[i]] = ACTIVE

----------------------------------------------------------------------------
(* Concurrent callers of RoundRobinBalancer.select("cloud", names) on the   *)
(* router's cloud balancer.  A step is one access to _lock or _index.      *)

Selectors == 1..NSelectors

NotSelected == [pc |-> "lock", idx |-> 0, out |-> "pending", value |-> 0]

(* a variant of SelectAcquirable: the with block does not exclude others *)
SelectAcquirableAlways(t) == TRUE

(* threading.Lock: it can be taken when no caller holds it *)
SelectAcquirable(t) == select_lock = 0

(* the balancer has served some calls before: its cursor is anywhere in    *)
(* range, or the key has not been used yet                                 *)
InitSelect ==
    /\ \E n \in 0..MaxGroups : providers = [g \in 1..n |-> 1]
    /\ cloud_index \in {NoIndex} \cup
            {IndexSet(NoIndex, CloudKey, c) : c \in 0..(Len(providers) - 1)}
    /\ inner_index = [g \in 1..Len(providers) |-> NoIndex]
    /\ seen = [group |-> 0, inst |-> [g \in 1..Len(providers) |-> 0]]
    /\ routed = NoRoute
    /\ select_lock = 0
    /\ selecting = [t \in Selectors |-> NotSelected]
    /\ pools = <<>> /\ strategy = RoundRobin /\ max_iteration = 1
    /\ status = <<>> /\ type = <<>> /\ index = NoIndex
    /\ IdleSeq /\ IdleConc /\ IdleComp

SelectFrame ==
    /\ UNCHANGED <<providers, inner_index, seen, routed>>
    /\ UNCHANGED <<lbVars, seqVars, concVars, compVars>>

(* line 10: with self._lock, entering *)
SelectLock(t) ==
    /\ selecting[t].pc = "lock"
    /\ SelectAcquirable(t)
    /\ select_lock' = t
    /\ selecting' = [selecting EXCEPT ![t].pc = "read"]
    /\ UNCHANGED cloud_index
    /\ SelectFrame

(* line 11: idx = self._index[key] *)
SelectRead(t) ==
    /\ selecting[t].pc = "read"
    /\ selecting' = [selecting EXCEPT ![t].pc = "write",
                                      ![t].idx = IndexGet(cloud_index, CloudKey)]
    /\ cloud_index' = IndexTouch(cloud_index, CloudKey)
    /\ UNCHANGED select_lock
    /\ SelectFrame

(* line 12: self._index[key] = (idx + 1) % len(options), leaving the with  *)
(* block; the division raises on an empty list                             *)
SelectWrite(t) ==
    /\ selecting[t].pc = "write"
    /\ select_lock' = 0
    /\ IF Len(CloudNames) = 0
       THEN /\ selecting' = [selecting EXCEPT ![t].pc = "done",
                                              ![t].out = ZeroDivision]
            /\ UNCHANGED cloud_index
       ELSE /\ cloud_index' = IndexSet(cloud_index, CloudKey,
                                       SelectNext(selecting[t].idx, CloudNames))
            /\ selecting' = [selecting EXCEPT ![t].pc = "return"]
    /\ SelectFrame

(* line 13: return options[idx] *)
SelectReturn(t) ==
    /\ selecting[t].pc = "return"
    /\ IF selecting[t].idx >= Len(CloudNames)
       THEN selecting' = [selecting EXCEPT ![t].pc = "done", ![t].out = IndexError]
       ELSE selecting' = [selecting EXCEPT
                            ![t].pc = "done", ![t].out = "ok",
                            ![t].value = SelectPick(selecting[t].idx, CloudNames)]
    /\ UNCHANGED <<cloud_index, select_lock>>
    /\ SelectFrame

NextSelect ==
    \/ \E t \in Selectors : SelectLock(t)
    \/ \E t \in Selectors : SelectRead(t)
    \/ \E t \in Selectors : SelectWrite(t)
    \/ \E t \in Selectors : SelectReturn(t)

SpecSelect == InitSelect /\ [][NextSelect]_vars

----------------------------------------------------------------------------
(* Properties of concurrent select calls *)

(* the callers whose cursor write (line 12) is done *)
Advanced == {t \in Selectors : selecting[t].pc \in {"return", "done"}}

CloudCursor == IndexGet(cloud_index, CloudKey)

(* the k indices that precede cursor cur, cyclically, as a count per index *)
HandedBefore(cur, k, L, v) == Cardinality({j \in 1..k : (cur + k * L - j) % L = v})

(* C25: whatever the interleaving, the calls that have advanced the cursor  *)
(* of a non-empty list of length L hold, one per call, the consecutive     *)
(* indices that end just before the cursor (mod L), so N calls that start  *)
(* at cursor c are handed c, ..., c+N-1 and leave the cursor at c+N; each  *)
(* finished call returned the option at its index, and the read and the    *)
(* write of the cursor happen with the lock held.                          *)
C25_LinearizableSelect ==
    Len(CloudNames) > 0 =>
        LET L == Len(CloudNames)
            k == Cardinality(Advanced)
        IN  /\ CloudCursor \in 0..(L - 1)
            /\ \A v \in 0..(L - 1) :
                  Cardinality({t \in Advanced : selecting[t].idx = v})
                      = HandedBefore(CloudCursor, k, L, v)
            /\ \A t \in Selectors :
                  /\ selecting[t].pc \in {"read", "write"} => select_lock = t
                  /\ selecting[t].pc = "write" => selecting[t].idx = CloudCursor
                  /\ selecting[t].pc = "done" =>
                        /\ selecting[t].out = "ok"
                        /\ selecting[t].value = CloudNames[selecting[t].idx + 1]

C25_Witness ==
    /\ Len(CloudNames) = 2
    /\ \A t \in Selectors : selecting[t].pc = "done"
    /\ \A t \in Selectors : selecting[t].idx = t % 2
    /\ CloudCursor = (1 + NSelectors) % 2

====
